---------------------------- MODULE Spec2Model ----------------------------
(* The two extractors of youtube_dl/extractor/adobetv.py, AdobeTVIE and   *)
(* AdobeTVVideoIE, as a state machine of extraction calls.  Text is a     *)
(* sequence of one-character strings, a JSON value is a tagged record,    *)
(* and a Python exception is the value Raise(kind).                       *)
EXTENDS Integers, Sequences, FiniteSets, TLC

VARIABLES ie, url, pc, ref, request, fetches, response, outcome

vars == <<ie, url, pc, ref, request, fetches, response, outcome>>

-----------------------------------------------------------------------------
(* Bounds of the model.                                                    *)

NumCalls == 2
MaxVideos == 2
MaxSources == 2
MaxTranslations == 2

-----------------------------------------------------------------------------
(* JSON values and Python results.                                         *)

None == [k |-> "none"]
JInt(n) == [k |-> "int", i |-> n]
JFloat(n, d) == [k |-> "float", num |-> n, den |-> d]
JText(s) == [k |-> "text", s |-> s]
Raise(e) == [k |-> "raise", err |-> e]
JList(l) == [k |-> "list", l |-> l]
JDict(d) == [k |-> "dict", d |-> d]

IsRaise(v) == v.k = "raise"

\* Python truthiness of a JSON scalar: None, 0, 0.0 and '' are falsy.
Truthy(v) ==
    CASE v.k = "none" -> FALSE
      [] v.k = "int" -> v.i # 0
      [] v.k = "float" -> v.num # 0
      [] v.k = "text" -> v.s # <<>>
      [] OTHER -> TRUE

\* dict.get(key): the value, or None when the key is missing.
Get(d, key) == IF key \in DOMAIN d THEN d[key] ELSE None

\* dict[key]: the value, or KeyError when the key is missing.
Item(d, key) == IF key \in DOMAIN d THEN d[key] ELSE Raise("KeyError")

-----------------------------------------------------------------------------
(* Text.                                                                   *)

Digits == <<"0", "1", "2", "3", "4", "5", "6", "7", "8", "9">>

IsDigit(ch) == \E j \in 1..10 : Digits[j] = ch

DigitVal(ch) == (CHOOSE j \in 1..10 : Digits[j] = ch) - 1

AllDigits(s) == \A j \in 1..Len(s) : IsDigit(s[j])

RECURSIVE DigitsToNat(_)
DigitsToNat(s) ==
    IF s = <<>> THEN 0
    ELSE 10 * DigitsToNat(SubSeq(s, 1, Len(s) - 1)) + DigitVal(s[Len(s)])

RECURSIVE NatToDigits(_)
NatToDigits(n) ==
    IF n < 10 THEN <<Digits[n + 1]>>
    ELSE NatToDigits(n \div 10) \o <<Digits[(n % 10) + 1]>>

\* str.split(sep) for a one-character separator: the list of pieces.
RECURSIVE Split(_, _)
Split(s, sep) ==
    IF \E j \in 1..Len(s) : s[j] = sep
    THEN LET j == CHOOSE x \in 1..Len(s) :
                      s[x] = sep /\ \A y \in 1..(x - 1) : s[y] # sep
         IN <<SubSeq(s, 1, j - 1)>> \o Split(SubSeq(s, j + 1, Len(s)), sep)
    ELSE <<s>>

\* re.sub of a character class by '': drop the characters of the class.
RECURSIVE Strip(_, _)
Strip(s, class) ==
    IF s = <<>> THEN <<>>
    ELSE (IF Head(s) \in class THEN <<>> ELSE <<Head(s)>>) \o Strip(Tail(s), class)

\* The longest prefix of s made of digits (a greedy \d* at the start of s).
RECURSIVE DigitPrefix(_)
DigitPrefix(s) ==
    IF s # <<>> /\ IsDigit(Head(s)) THEN <<Head(s)>> \o DigitPrefix(Tail(s))
    ELSE <<>>

Last(s) == s[Len(s)]

\* The first exception among the values of seq, or ok when none raises:
\* Python evaluates the parts in order and the first exception propagates.
Try(seq, ok) ==
    IF \E j \in 1..Len(seq) : IsRaise(seq[j])
    THEN seq[CHOOSE j \in 1..Len(seq) :
                 IsRaise(seq[j]) /\ \A y \in 1..(j - 1) : ~IsRaise(seq[y])]
    ELSE ok

-----------------------------------------------------------------------------
(* The collaborators imported from ..utils, by their contract: each        *)
(* returns None on a missing or unparseable value.                         *)

int_or_none(v) ==
    CASE v.k = "int" -> v
      [] v.k = "text" ->
            IF v.s # <<>> /\ AllDigits(v.s) THEN JInt(DigitsToNat(v.s)) ELSE None
      [] OTHER -> None

float_or_none(v, scale) ==
    CASE v.k = "int" -> JFloat(v.i, scale)
      [] v.k = "text" ->
            IF v.s # <<>> /\ AllDigits(v.s)
            THEN JFloat(DigitsToNat(v.s), scale) ELSE None
      [] OTHER -> None

str_to_int(v) ==
    CASE v.k = "int" -> v
      [] v.k = "text" ->
            LET t == Strip(v.s, {",", ".", "+"})
            IN IF t # <<>> /\ AllDigits(t) THEN JInt(DigitsToNat(t)) ELSE None
      [] OTHER -> None

RECURSIVE SexagesimalValue(_)
SexagesimalValue(parts) ==
    IF parts = <<>> THEN 0
    ELSE 60 * SexagesimalValue(SubSeq(parts, 1, Len(parts) - 1))
         + DigitsToNat(Last(parts))

\* "SS", "MM:SS" or "H:MM:SS" to seconds.
parse_duration(v) ==
    IF v.k # "text" THEN None
    ELSE LET parts == Split(v.s, ":")
         IN IF Len(parts) <= 3
               /\ \A j \in 1..Len(parts) : parts[j] # <<>> /\ AllDigits(parts[j])
            THEN JInt(SexagesimalValue(parts)) ELSE None

\* "YYYYMMDD" or "YYYY-MM-DD" to "YYYYMMDD".
unified_strdate(v) ==
    IF v.k # "text" THEN None
    ELSE LET parts == Split(v.s, "-")
             flat == Strip(v.s, {"-"})
         IN IF AllDigits(flat) /\ Len(flat) = 8
               /\ (Len(parts) = 1
                   \/ (Len(parts) = 3 /\ Len(parts[1]) = 4 /\ Len(parts[2]) = 2))
            THEN JText(flat) ELSE None

French == <<"F", "r", "e", "n", "c", "h">>
German == <<"G", "e", "r", "m", "a", "n">>
Klingon == <<"K", "l", "i", "n", "g", "o", "n">>

\* ISO639Utils.long2short: the short code of a long language name, or None.
long2short(v) ==
    IF v.k # "text" THEN None
    ELSE CASE v.s = French -> JText(<<"f", "r">>)
           [] v.s = German -> JText(<<"d", "e">>)
           [] OTHER -> None

NotAlnum == {"/", ":", "-", ".", "?", ",", "+", "=", " "}

\* determine_ext: what follows the last '.' of the URL without its query,
\* when that is alphanumeric.
determine_ext(v) ==
    LET guess == Last(Split(Head(Split(v.s, "?")), "."))
    IN IF guess # <<>> /\ \A j \in 1..Len(guess) : guess[j] \notin NotAlnum
       THEN guess ELSE <<"u", "n", "k", "n", "o", "w", "n", "_", "v", "i", "d", "e", "o">>

\* str(v) and '%s' % v.
Str(v) ==
    CASE v.k = "int" -> NatToDigits(v.i)
      [] v.k = "text" -> v.s
      [] OTHER -> <<"N", "o", "n", "e">>

\* Quality of a format for _sort_formats: resolution, then bitrate.
Rank(v) == IF v.k = "int" THEN v.i ELSE -1

Better(f, g) ==
    \/ Rank(f.height) > Rank(g.height)
    \/ Rank(f.height) = Rank(g.height) /\ Rank(f.tbr) > Rank(g.tbr)

RECURSIVE Insert(_, _)
Insert(sorted, f) ==
    IF sorted = <<>> THEN <<f>>
    ELSE IF Better(f, Head(sorted)) THEN <<f>> \o sorted
    ELSE <<Head(sorted)>> \o Insert(Tail(sorted), f)

\* InfoExtractor._sort_formats: stable order by descending quality.
RECURSIVE sort_formats(_)
sort_formats(formats) ==
    IF formats = <<>> THEN <<>>
    ELSE Insert(sort_formats(SubSeq(formats, 1, Len(formats) - 1)), Last(formats))

-----------------------------------------------------------------------------
(* AdobeTVIE: the field mapper.                                            *)

\* ...['data'][0] of the downloaded JSON.
video_data_A(json) ==
    LET data == Item(json, "data")
    IN IF IsRaise(data) THEN data
       ELSE IF data.l = <<>> THEN Raise("IndexError")
       ELSE data.l[1]

\* format_id_A without the final "or None".
format_id_A_empty(source) ==
    LET label == Get(source, "quality_level")
    IN IF Truthy(label) THEN label
       ELSE JText(Head(Split(Last(Split(source["url"].s, "-")), ".")))

\* source.get('quality_level') or source['url'].split('-')[-1].split('.')[0] or None
format_id_A(source) ==
    LET label == Get(source, "quality_level")
        token == Head(Split(Last(Split(source["url"].s, "-")), "."))
    IN IF Truthy(label) THEN label
       ELSE IF token # <<>> THEN JText(token)
       ELSE None

\* format_A reading 'url' with .get(): a format without a url.
format_A_lenient(source) ==
    [k |-> "format",
     url |-> Get(source, "url"),
     format_id |-> Get(source, "quality_level"),
     width |-> int_or_none(Get(source, "width")),
     height |-> int_or_none(Get(source, "height")),
     tbr |-> int_or_none(Get(source, "video_data_rate"))]

\* format_A converting with a bare int(): ValueError on non-numeric text.
format_A_strict(source) ==
    IF IsRaise(Item(source, "url")) THEN Item(source, "url")
    ELSE IF \E key \in {"width", "height", "video_data_rate"} :
                /\ Get(source, key).k = "text"
                /\ ~(Get(source, key).s # <<>> /\ AllDigits(Get(source, key).s))
    THEN Raise("ValueError")
    ELSE [k |-> "format",
          url |-> source["url"],
          format_id |-> format_id_A(source),
          width |-> int_or_none(Get(source, "width")),
          height |-> int_or_none(Get(source, "height")),
          tbr |-> int_or_none(Get(source, "video_data_rate"))]

format_A(source) ==
    IF IsRaise(Item(source, "url")) THEN Item(source, "url")
    ELSE [k |-> "format",
          url |-> source["url"],
          format_id |-> format_id_A(source),
          width |-> int_or_none(Get(source, "width")),
          height |-> int_or_none(Get(source, "height")),
          tbr |-> int_or_none(Get(source, "video_data_rate"))]

formats_A(video_data) ==
    LET videos == Item(video_data, "videos")
    IN IF IsRaise(videos) THEN videos
       ELSE LET made == [j \in 1..Len(videos.l) |-> format_A(videos.l[j])]
            IN Try(made, JList(sort_formats(made)))

\* Lines 42-62: the record returned, or the exception raised on the way.
record_A(json) ==
    LET video_data == video_data_A(json)
    IN IF IsRaise(video_data) THEN video_data
       ELSE LET formats == formats_A(video_data)
                id == Item(video_data, "id")
                title == Item(video_data, "title")
            IN Try(<<formats, id, title>>,
                   [k |-> "record",
                    id |-> JText(Str(id)),
                    title |-> title,
                    description |-> Get(video_data, "description"),
                    thumbnail |-> Get(video_data, "thumbnail"),
                    upload_date |-> unified_strdate(Get(video_data, "start_date")),
                    duration |-> parse_duration(Get(video_data, "duration")),
                    view_count |-> str_to_int(Get(video_data, "playcount")),
                    formats |-> formats.l])

-----------------------------------------------------------------------------
(* AdobeTVVideoIE: the field mapper.                                       *)

format_B(source) ==
    IF IsRaise(Item(source, "src")) THEN Item(source, "src")
    ELSE [k |-> "format",
          format_id |-> JText(determine_ext(source["src"]) \o <<"-">>
                              \o Str(Get(source, "height"))),
          url |-> source["src"],
          width |-> int_or_none(Get(source, "width")),
          height |-> int_or_none(Get(source, "height")),
          tbr |-> int_or_none(Get(source, "bitrate"))]

formats_B(video_data) ==
    LET sources == Item(video_data, "sources")
    IN IF IsRaise(sources) THEN sources
       ELSE LET made == [j \in 1..Len(sources.l) |-> format_B(sources.l[j])]
            IN Try(made, JList(sort_formats(made)))

FloatLess(a, b) == a.num * b.den < b.num * a.den

\* max() of a list: ValueError on an empty one.
Max(list) ==
    IF list = <<>> THEN Raise("ValueError")
    ELSE list[CHOOSE j \in 1..Len(list) :
                  /\ \A y \in 1..Len(list) : ~FloatLess(list[j], list[y])
                  /\ \A y \in 1..(j - 1) : FloatLess(list[y], list[j])]

\* max(filter(None, [float_or_none(source.get('duration'), scale=1000) ...]))
duration_B(sources) ==
    Max(SelectSeq([j \in 1..Len(sources) |->
                       float_or_none(Get(sources[j], "duration"), 1000)],
                  Truthy))

\* translation.get('language_w3c') or
\* ISO639Utils.long2short(translation['language_medium'])
lang_id(translation) ==
    LET w3c == Get(translation, "language_w3c")
        medium == Item(translation, "language_medium")
    IN IF Truthy(w3c) THEN w3c
       ELSE IF IsRaise(medium) THEN medium
       ELSE long2short(medium)

EmptyDict == [x \in {} |-> <<>>]

\* The loop assigning subtitles[lang_id] = [track]: a later track of a
\* language replaces the earlier ones.
RECURSIVE subtitles_loop_overwrite(_, _)
subtitles_loop_overwrite(translations, subtitles) ==
    IF translations = <<>> THEN JDict(subtitles)
    ELSE LET translation == Head(translations)
             lang == lang_id(translation)
             vtt == Item(translation, "vttPath")
         IN IF IsRaise(lang) THEN lang
            ELSE IF IsRaise(vtt) THEN vtt
            ELSE subtitles_loop_overwrite(
                     Tail(translations),
                     [x \in DOMAIN subtitles \cup {lang} |->
                         IF x = lang
                         THEN <<[url |-> vtt, ext |-> <<"v", "t", "t">>]>>
                         ELSE subtitles[x]])

\* The loop of lines 101-108 over the translations left, from the dict so far.
RECURSIVE subtitles_loop(_, _)
subtitles_loop(translations, subtitles) ==
    IF translations = <<>> THEN JDict(subtitles)
    ELSE LET translation == Head(translations)
             lang == lang_id(translation)
             vtt == Item(translation, "vttPath")
             had == IF lang \in DOMAIN subtitles THEN subtitles[lang] ELSE <<>>
         IN IF IsRaise(lang) THEN lang
            ELSE IF IsRaise(vtt) THEN vtt
            ELSE subtitles_loop(
                     Tail(translations),
                     [x \in DOMAIN subtitles \cup {lang} |->
                         IF x = lang
                         THEN Append(had, [url |-> vtt, ext |-> <<"v", "t", "t">>])
                         ELSE subtitles[x]])

\* video_data.get('translations', [])
translations_B(video_data) ==
    IF "translations" \in DOMAIN video_data THEN video_data["translations"].l ELSE <<>>

\* video_data['video'].get('poster')
thumbnail_B(video_data) ==
    LET video == Item(video_data, "video")
    IN IF IsRaise(video) THEN video ELSE Get(video, "poster")

\* Lines 85-118: the record returned, or the exception raised on the way.
record_B(video_id, video_data, subtitles0) ==
    LET formats == formats_B(video_data)
    IN IF IsRaise(formats) THEN formats
       ELSE LET duration == duration_B(video_data["sources"].l)
                subtitles == subtitles_loop(translations_B(video_data), subtitles0)
                title == Item(video_data, "title")
                thumbnail == thumbnail_B(video_data)
            IN Try(<<duration, subtitles, title, thumbnail>>,
                   [k |-> "record",
                    id |-> JText(video_id),
                    formats |-> formats.l,
                    title |-> title,
                    description |-> Get(video_data, "description"),
                    thumbnail |-> thumbnail,
                    duration |-> duration,
                    subtitles |-> subtitles.d])

-----------------------------------------------------------------------------
(* URLs and the two _VALID_URL patterns.  A URL is its scheme, its host    *)
(* and the segments of its path.                                           *)

fr == <<"f", "r">>
de == <<"d", "e">>
es == <<"e", "s">>
jp == <<"j", "p">>
en == <<"e", "n">>
watch == <<"w", "a", "t", "c", "h">>

\* watch/(?P<show_urlname>[^/]+)/(?P<id>[^/]+) from segment j of the path.
WatchAt(path, j) ==
    /\ Len(path) >= j + 2
    /\ path[j] = watch
    /\ path[j + 1] # <<>>
    /\ path[j + 2] # <<>>

\* re.match(AdobeTVIE._VALID_URL, url): the groups, or None.
valid_url_A(u) ==
    IF u.scheme \in {"http", "https"} /\ u.host = "tv.adobe.com"
    THEN IF Len(u.path) >= 1 /\ u.path[1] \in {fr, de, es, jp} /\ WatchAt(u.path, 2)
         THEN [k |-> "match", language |-> JText(u.path[1]),
               show_urlname |-> u.path[3], id |-> u.path[4]]
         ELSE IF WatchAt(u.path, 1)
         THEN [k |-> "match", language |-> None,
               show_urlname |-> u.path[2], id |-> u.path[3]]
         ELSE None
    ELSE None

\* language_A without the default.
language_A_nodefault(groups) ==
    IF Truthy(groups.language) THEN groups.language.s ELSE <<>>

\* if not language: language = 'en'
language_A(groups) ==
    IF Truthy(groups.language) THEN groups.language.s ELSE en

\* re.match(AdobeTVVideoIE._VALID_URL, url): the groups, or None.
valid_url_B(u) ==
    IF /\ u.scheme \in {"http", "https"}
       /\ u.host = "video.tv.adobe.com"
       /\ Len(u.path) >= 2
       /\ u.path[1] = <<"v">>
       /\ DigitPrefix(u.path[2]) # <<>>
    THEN [k |-> "match", id |-> DigitPrefix(u.path[2])]
    ELSE None

\* The endpoint of line 41.
endpoint_A(r) ==
    [host |-> "tv.adobe.com", path |-> "/api/v4/episode/get/",
     language |-> r.language, show_urlname |-> r.show_urlname,
     urlname |-> r.urlname, disclosure |-> "standard"]

\* url + '?format=json'
endpoint_B(u) == [url |-> u, query |-> "format=json"]

-----------------------------------------------------------------------------
(* Outcomes of a call.                                                     *)

NoOutcome == [k |-> "none"]
NoMatch == [k |-> "nomatch"]
FetchError == [k |-> "fetch_error"]

\* InfoExtractor._match_id on a URL outside the pattern: the extractor declines.
match_id_declines == NoMatch

\* subtitles as a dict shared by the calls (a class attribute): a call
\* starts from what an earlier call left in it.
subtitles_shared(c) ==
    IF \E d \in DOMAIN outcome :
           d # c /\ outcome[d].k = "record" /\ "subtitles" \in DOMAIN outcome[d]
    THEN outcome[CHOOSE d \in DOMAIN outcome :
                     d # c /\ outcome[d].k = "record"
                     /\ "subtitles" \in DOMAIN outcome[d]].subtitles
    ELSE EmptyDict

\* subtitles = {}: a fresh dict of the call.
subtitles_init(c) == EmptyDict

-----------------------------------------------------------------------------
(* The calls.                                                              *)

Init(n) ==
    /\ ie = [c \in 1..n |-> "none"]
    /\ url = [c \in 1..n |-> None]
    /\ pc = [c \in 1..n |-> "idle"]
    /\ ref = [c \in 1..n |-> None]
    /\ request = [c \in 1..n |-> None]
    /\ fetches = [c \in 1..n |-> 0]
    /\ response = [c \in 1..n |-> None]
    /\ outcome = [c \in 1..n |-> NoOutcome]

\* AdobeTVIE._real_extract, lines 36-38.
AdobeTVIE_match(c, u) ==
    /\ pc[c] = "idle"
    /\ ie' = [ie EXCEPT ![c] = "AdobeTVIE"]
    /\ url' = [url EXCEPT ![c] = u]
    /\ LET groups == valid_url_A(u)
       IN IF groups = None
          THEN /\ pc' = [pc EXCEPT ![c] = "done"]
               /\ outcome' = [outcome EXCEPT ![c] = Raise("AttributeError")]
               /\ UNCHANGED ref
          ELSE /\ pc' = [pc EXCEPT ![c] = "matched"]
               /\ ref' = [ref EXCEPT ![c] =
                            [language |-> language_A(groups),
                             show_urlname |-> groups.show_urlname,
                             urlname |-> groups.id]]
               /\ UNCHANGED outcome
    /\ UNCHANGED <<request, fetches, response>>

\* AdobeTVIE._real_extract, lines 40-41: the request of _download_json.
AdobeTVIE_download_json(c) ==
    /\ pc[c] = "matched"
    /\ ie[c] = "AdobeTVIE"
    /\ request' = [request EXCEPT ![c] = endpoint_A(ref[c])]
    /\ fetches' = [fetches EXCEPT ![c] = @ + 1]
    /\ pc' = [pc EXCEPT ![c] = "fetching"]
    /\ UNCHANGED <<ie, url, ref, response, outcome>>

\* AdobeTVIE_return catching the error of _download_json and trying again.
AdobeTVIE_return_retry(c, answers) ==
    /\ pc[c] = "fetching"
    /\ ie[c] = "AdobeTVIE"
    /\ \E json \in answers :
        /\ response' = [response EXCEPT ![c] = json]
        /\ IF json = FetchError
           THEN /\ pc' = [pc EXCEPT ![c] = "matched"]
                /\ UNCHANGED outcome
           ELSE /\ pc' = [pc EXCEPT ![c] = "done"]
                /\ outcome' = [outcome EXCEPT ![c] = record_A(json)]
    /\ UNCHANGED <<ie, url, ref, request, fetches>>

\* AdobeTVIE._real_extract, lines 42-62: _download_json returns one of the
\* answers, a document or its error.
AdobeTVIE_return(c, answers) ==
    /\ pc[c] = "fetching"
    /\ ie[c] = "AdobeTVIE"
    /\ \E json \in answers :
        /\ response' = [response EXCEPT ![c] = json]
        /\ outcome' = [outcome EXCEPT ![c] =
                         IF json = FetchError THEN Raise("ExtractorError")
                         ELSE record_A(json)]
    /\ pc' = [pc EXCEPT ![c] = "done"]
    /\ UNCHANGED <<ie, url, ref, request, fetches>>

\* AdobeTVVideoIE._real_extract, line 82.
AdobeTVVideoIE_match(c, u) ==
    /\ pc[c] = "idle"
    /\ ie' = [ie EXCEPT ![c] = "AdobeTVVideoIE"]
    /\ url' = [url EXCEPT ![c] = u]
    /\ LET groups == valid_url_B(u)
       IN IF groups = None
          THEN /\ pc' = [pc EXCEPT ![c] = "done"]
               /\ outcome' = [outcome EXCEPT ![c] = match_id_declines]
               /\ UNCHANGED ref
          ELSE /\ pc' = [pc EXCEPT ![c] = "matched"]
               /\ ref' = [ref EXCEPT ![c] = [video_id |-> groups.id]]
               /\ UNCHANGED outcome
    /\ UNCHANGED <<request, fetches, response>>

\* AdobeTVVideoIE._real_extract, line 83: the request of _download_json.
AdobeTVVideoIE_download_json(c) ==
    /\ pc[c] = "matched"
    /\ ie[c] = "AdobeTVVideoIE"
    /\ request' = [request EXCEPT ![c] = endpoint_B(url[c])]
    /\ fetches' = [fetches EXCEPT ![c] = @ + 1]
    /\ pc' = [pc EXCEPT ![c] = "fetching"]
    /\ UNCHANGED <<ie, url, ref, response, outcome>>

\* AdobeTVVideoIE._real_extract, lines 83-118: _download_json returns one of
\* the answers, a document or its error.
AdobeTVVideoIE_return(c, answers) ==
    /\ pc[c] = "fetching"
    /\ ie[c] = "AdobeTVVideoIE"
    /\ \E json \in answers :
        /\ response' = [response EXCEPT ![c] = json]
        /\ outcome' = [outcome EXCEPT ![c] =
                         IF json = FetchError THEN Raise("ExtractorError")
                         ELSE record_B(ref[c].video_id, json, subtitles_init(c))]
    /\ pc' = [pc EXCEPT ![c] = "done"]
    /\ UNCHANGED <<ie, url, ref, request, fetches>>

-----------------------------------------------------------------------------
(* The inputs: the URLs the extractors are called on and the documents     *)
(* the server may answer.                                                  *)

\* A JSON object of the pairs <<key, value>> whose value is not None.
Obj(pairs) ==
    LET present == {j \in 1..Len(pairs) : pairs[j][2] # None}
    IN [x \in {"k"} \cup {pairs[j][1] : j \in present} |->
           IF x = "k" THEN "obj"
           ELSE pairs[CHOOSE j \in present : pairs[j][1] = x][2]]

SeqsUpTo(S, n) == UNION {[1..m -> S] : m \in 0..n}

U(scheme, host, path) == [scheme |-> scheme, host |-> host, path |-> path]

show == <<"s", "h", "o", "w">>
ep == <<"e", "p">>

ProtocolURLs ==
    {U("http", "tv.adobe.com", <<watch, show, ep>>),
     U("https", "tv.adobe.com", <<fr, watch, show, ep>>),
     U("http", "tv.adobe.com", <<<<"i", "t">>, watch, show, ep>>),
     U("https", "video.tv.adobe.com", <<<<"v">>, <<"2", "4", "5", "6">>, <<>>>>),
     U("https", "video.tv.adobe.com", <<<<"v">>, <<"a", "b", "c">>>>)}

AllURLs ==
    ProtocolURLs \cup
    {U("http", "tv.adobe.com", <<de, watch, show, ep>>),
     U("http", "tv.adobe.com", <<es, watch, show, ep>>),
     U("http", "tv.adobe.com", <<jp, watch, show, ep, <<>>>>),
     U("http", "tv.adobe.com", <<en, watch, show, ep>>),
     U("http", "tv.adobe.com", <<watch, fr, ep>>),
     U("http", "tv.adobe.com", <<watch, show>>),
     U("http", "tv.adobe.com", <<fr, watch>>),
     U("ftp", "tv.adobe.com", <<watch, show, ep>>),
     U("http", "example.com", <<watch, show, ep>>),
     U("http", "video.tv.adobe.com", <<<<"v">>, <<"2", "4", "x">>>>),
     U("http", "video.tv.adobe.com", <<<<"w">>, <<"2", "4", "5", "6">>>>)}

T_title == JText(<<"Q", "u", "i", "c", "k">>)
T_desc == JText(<<"d", "e", "s", "c">>)
T_jpg == JText(<<"t", ".", "j", "p", "g">>)
T_NA == JText(<<"N", "/", "A">>)
T_480 == JText(<<"4", "8", "0">>)
T_hd == JText(<<"h", "d">>)
T_empty == JText(<<>>)

URL_q720 == JText(<<"x", "/", "q", "-", "7", "2", "0", ".", "m", "p", "4">>)
URL_nodash == JText(<<"x", "/", "q", ".", "m", "p", "4">>)
URL_dashdot == JText(<<"x", "/", "q", "-", ".", "m", "p", "4">>)

Video(u, q, w, h, r) ==
    Obj(<<<<"url", u>>, <<"quality_level", q>>, <<"width", w>>, <<"height", h>>,
          <<"video_data_rate", r>>>>)

BaseVideo == Video(URL_q720, None, JInt(1280), JInt(720), JInt(1500))

NumericRaw == {None, T_480, T_NA}

VideoEntries ==
    {Video(u, q, JInt(1280), JInt(720), JInt(1500)) :
        u \in {None, URL_q720, URL_nodash, URL_dashdot}, q \in {None, T_empty, T_hd}}
    \cup {Video(URL_q720, None, n, JInt(720), JInt(1500)) : n \in NumericRaw}
    \cup {Video(URL_q720, None, JInt(1280), n, JInt(1500)) : n \in NumericRaw}
    \cup {Video(URL_q720, None, JInt(1280), JInt(720), n) : n \in NumericRaw}

Episode(id, title, videos, desc, thumb, date, dur, plays) ==
    Obj(<<<<"data", JList(<<
        Obj(<<<<"id", id>>, <<"title", title>>, <<"videos", videos>>,
              <<"description", desc>>, <<"thumbnail", thumb>>,
              <<"start_date", date>>, <<"duration", dur>>,
              <<"playcount", plays>>>>)>>)>>>>)

T_date == JText(<<"2", "0", "1", "1", "0", "9", "1", "4">>)
T_isodate == JText(<<"2", "0", "1", "1", "-", "0", "9", "-", "1", "4">>)
T_soon == JText(<<"s", "o", "o", "n">>)
T_1m == JText(<<"1", ":", "0", "0">>)
T_60 == JText(<<"6", "0">>)
T_1234 == JText(<<"1", "2", "3", "4">>)
T_1c234 == JText(<<"1", ",", "2", "3", "4">>)

\* The record of the specification's example.
EpisodeExample ==
    Episode(JInt(10981), T_title, JList(<<BaseVideo>>), None, None, T_date, T_1m, T_1234)

EpisodeBroken ==
    {Obj(<<>>),
     Obj(<<<<"data", JList(<<>>)>>>>),
     Episode(None, T_title, JList(<<BaseVideo>>), None, None, None, None, None),
     Episode(JInt(10981), None, JList(<<BaseVideo>>), None, None, None, None, None),
     Episode(JInt(10981), T_title, None, None, None, None, None, None),
     Episode(JInt(10981), T_title,
             JList(<<BaseVideo, Video(None, T_hd, None, None, None)>>),
             None, None, None, None, None)}

ProtocolEpisodes ==
    EpisodeBroken \cup
    {EpisodeExample,
     Episode(JInt(7), T_title, JList(<<>>), T_desc, T_jpg, None, T_60, T_NA)}

AllEpisodes ==
    ProtocolEpisodes
    \cup {Episode(JInt(10981), T_title, JList(l), None, None, None, None, None) :
             l \in SeqsUpTo(VideoEntries, MaxVideos)}
    \cup {Episode(JInt(10981), T_title, JList(<<BaseVideo>>), d, t, s, dur, p) :
             d \in {None, T_desc}, t \in {None, T_jpg},
             s \in {None, T_date, T_isodate, T_soon},
             dur \in {None, T_1m, T_60, T_soon},
             p \in {None, T_1234, T_1c234, T_NA, JInt(7)}}

URL_amp4 == JText(<<"a", ".", "m", "p", "4">>)
URL_b == JText(<<"b", "/">>)

Source(src, w, h, b, d) ==
    Obj(<<<<"src", src>>, <<"width", w>>, <<"height", h>>, <<"bitrate", b>>,
          <<"duration", d>>>>)

BaseSource == Source(URL_amp4, JInt(640), JInt(360), JInt(500), JInt(1000))

SourceEntries ==
    {Source(u, JInt(640), JInt(360), JInt(500), JInt(1000)) : u \in {None, URL_amp4, URL_b}}
    \cup {Source(URL_amp4, n, JInt(360), JInt(500), JInt(1000)) : n \in NumericRaw}
    \cup {Source(URL_amp4, JInt(640), n, JInt(500), JInt(1000)) : n \in NumericRaw}
    \cup {Source(URL_amp4, JInt(640), JInt(360), n, JInt(1000)) : n \in NumericRaw}
    \cup {Source(URL_amp4, JInt(1280), JInt(720), JInt(500), d) :
             d \in {None, JInt(0), JInt(2000), JInt(248667), T_NA}}

T_fvtt == JText(<<"f", ".", "v", "t", "t">>)
T_gvtt == JText(<<"g", ".", "v", "t", "t">>)

Translation(w3c, medium, vtt) ==
    Obj(<<<<"language_w3c", w3c>>, <<"language_medium", medium>>, <<"vttPath", vtt>>>>)

TranslationEntries ==
    {Translation(w, m, v) :
        w \in {None, T_empty, JText(fr)},
        m \in {None, JText(French), JText(Klingon)},
        v \in {T_fvtt, T_gvtt}}
    \cup {Translation(JText(de), JText(German), None)}

VideoDoc(title, sources, desc, video, translations) ==
    Obj(<<<<"title", title>>, <<"sources", sources>>, <<"description", desc>>,
          <<"video", video>>, <<"translations", translations>>>>)

Poster(p) == Obj(<<<<"poster", p>>>>)

\* The sources and translations of the specification's examples.
VideoExample ==
    VideoDoc(T_title,
             JList(<<BaseSource, Source(URL_amp4, None, JInt(720), None, JInt(2000))>>),
             T_desc, Poster(T_jpg),
             JList(<<Translation(JText(fr), None, T_fvtt),
                     Translation(None, JText(French), T_gvtt)>>))

VideoBroken ==
    {VideoDoc(None, JList(<<BaseSource>>), None, Poster(None), None),
     VideoDoc(T_title, None, None, Poster(None), None),
     VideoDoc(T_title,
              JList(<<BaseSource, Source(None, None, None, None, JInt(1000))>>),
              None, Poster(None), None)}

ProtocolVideos ==
    VideoBroken \cup
    {VideoExample,
     VideoDoc(T_title, JList(<<BaseSource>>), None, None, None),
     VideoDoc(T_title, JList(<<Source(URL_amp4, None, None, None, None)>>),
              None, Poster(None), None),
     VideoDoc(T_title, JList(<<BaseSource>>), None, Poster(None),
              JList(<<Translation(None, JText(German), T_fvtt)>>))}

AllVideos ==
    ProtocolVideos
    \cup {VideoDoc(T_title, JList(l), None, Poster(None), None) :
             l \in SeqsUpTo(SourceEntries, MaxSources)}
    \cup {VideoDoc(T_title, JList(<<BaseSource>>), None, Poster(None), JList(l)) :
             l \in SeqsUpTo(TranslationEntries, MaxTranslations)}
    \cup {VideoDoc(t, JList(<<BaseSource>>), d, v, None) :
             t \in {None, T_title}, d \in {None, T_desc},
             v \in {None, Poster(None), Poster(T_jpg)}}

\* What _download_json may answer: a document or its error.
ProtocolEpisodeAnswers == ProtocolEpisodes \cup {FetchError}
ProtocolVideoAnswers == ProtocolVideos \cup {FetchError}
AllEpisodeAnswers == AllEpisodes \cup {FetchError}
AllVideoAnswers == AllVideos \cup {FetchError}

-----------------------------------------------------------------------------
(* The specifications.                                                     *)

\* Concurrent calls on the documents that decide the protocol.
Calls == 1..NumCalls

Next ==
    \/ \E c \in Calls, u \in ProtocolURLs : AdobeTVIE_match(c, u)
    \/ \E c \in Calls : AdobeTVIE_download_json(c)
    \/ \E c \in Calls : AdobeTVIE_return(c, ProtocolEpisodeAnswers)
    \/ \E c \in Calls, u \in ProtocolURLs : AdobeTVVideoIE_match(c, u)
    \/ \E c \in Calls : AdobeTVVideoIE_download_json(c)
    \/ \E c \in Calls : AdobeTVVideoIE_return(c, ProtocolVideoAnswers)

Spec == Init(NumCalls) /\ [][Next]_vars

\* One call on every document of the field mapper's input space.
NextMap ==
    \/ \E u \in AllURLs : AdobeTVIE_match(1, u)
    \/ AdobeTVIE_download_json(1)
    \/ AdobeTVIE_return(1, AllEpisodeAnswers)
    \/ \E u \in AllURLs : AdobeTVVideoIE_match(1, u)
    \/ AdobeTVVideoIE_download_json(1)
    \/ AdobeTVVideoIE_return(1, AllVideoAnswers)

SpecMap == Init(1) /\ [][NextMap]_vars

-----------------------------------------------------------------------------
(* What the properties speak of, stated on the raw documents.              *)

Done(c) == pc[c] = "done"
Returned(c) == outcome[c].k = "record"
Failed(c) == outcome[c].k = "raise"
Matched(c) == ref[c] # None
IsDoc(v) == v.k = "obj"
Has(d, key) == key \in DOMAIN d

\* The required keys of an episode document: data[0], id, title, videos, url.
RequiredA(json) ==
    /\ IsDoc(json)
    /\ Has(json, "data")
    /\ json["data"].l # <<>>
    /\ LET r == json["data"].l[1]
       IN /\ Has(r, "id") /\ Has(r, "title") /\ Has(r, "videos")
          /\ \A j \in 1..Len(r["videos"].l) : Has(r["videos"].l[j], "url")

\* The required keys of a video document: title, sources, src.
RequiredB(json) ==
    /\ IsDoc(json)
    /\ Has(json, "title")
    /\ Has(json, "sources")
    /\ \A j \in 1..Len(json["sources"].l) : Has(json["sources"].l[j], "src")

RawEpisode(c) == response[c]["data"].l[1]
RawVideos(c) == RawEpisode(c)["videos"].l
RawSources(c) == response[c]["sources"].l
RawTranslations(c) ==
    IF Has(response[c], "translations") THEN response[c]["translations"].l ELSE <<>>

NonEmptyText(v) == v.k = "text" /\ v.s # <<>>

\* Every translation names its track and a language one way or the other.
WellFormedTranslations(c) ==
    \A j \in 1..Len(RawTranslations(c)) :
        LET t == RawTranslations(c)[j]
        IN Has(t, "vttPath")
           /\ (NonEmptyText(Get(t, "language_w3c")) \/ Has(t, "language_medium"))

\* The durations, in milliseconds, the sources report.
ReportedMs(c) ==
    {Get(RawSources(c)[j], "duration").i :
        j \in {x \in 1..Len(RawSources(c)) : Get(RawSources(c)[x], "duration").k = "int"}}

Bijections(n) ==
    {p \in [1..n -> 1..n] : \A x, y \in 1..n : p[x] = p[y] => x = y}

Junk == {T_soon, T_NA, T_empty}

\* The integer a raw value of the inputs stands for, if any.
ExpectedInt(raw) ==
    CASE raw.k = "int" -> raw
      [] raw = T_480 -> JInt(480)
      [] raw = T_1234 -> JInt(1234)
      [] raw = T_1c234 -> JInt(1234)
      [] OTHER -> None

-----------------------------------------------------------------------------
(* The properties.                                                         *)

\* C1: AdobeTVVideoIE: whenever some source of the fetched record reports a
\* duration, a record is returned whose duration is the maximum of the
\* reported durations, each in milliseconds divided by 1000; sources without
\* a duration do not count.
C1_DurationIsMaximum ==
    \A c \in DOMAIN pc :
        (/\ Done(c) /\ ie[c] = "AdobeTVVideoIE"
         /\ RequiredB(response[c]) /\ Has(response[c], "video")
         /\ WellFormedTranslations(c)
         /\ ReportedMs(c) # {})
        => /\ Returned(c)
           /\ outcome[c].duration =
                 JFloat(CHOOSE m \in ReportedMs(c) : \A x \in ReportedMs(c) : x <= m,
                        1000)

\* C2: for either extractor, a fetched record with every required key yields
\* a record, and each optional field of it is absent exactly when its raw
\* input is absent (or, for a parsed field, unparseable).
C2_OptionalFieldsDegrade ==
    \A c \in DOMAIN pc :
        /\ (Done(c) /\ ie[c] = "AdobeTVIE" /\ RequiredA(response[c]))
           => /\ Returned(c)
              /\ LET r == RawEpisode(c)
                     o == outcome[c]
                 IN /\ o.description = None <=> ~Has(r, "description")
                    /\ o.thumbnail = None <=> ~Has(r, "thumbnail")
                    /\ o.upload_date = None
                          <=> (~Has(r, "start_date") \/ r["start_date"] \in Junk)
                    /\ o.duration = None
                          <=> (~Has(r, "duration") \/ r["duration"] \in Junk)
                    /\ o.view_count = None
                          <=> (~Has(r, "playcount") \/ r["playcount"] \in Junk)
        /\ (/\ Done(c) /\ ie[c] = "AdobeTVVideoIE"
            /\ RequiredB(response[c]) /\ WellFormedTranslations(c))
           => /\ Returned(c)
              /\ LET r == response[c]
                     o == outcome[c]
                 IN /\ o.description = None <=> ~Has(r, "description")
                    /\ o.thumbnail = None
                          <=> (~Has(r, "video") \/ ~Has(r["video"], "poster"))
                    /\ o.duration = None <=> ReportedMs(c) = {}
                    /\ o.subtitles = EmptyDict <=> RawTranslations(c) = <<>>

\* A returned record is whole: a text id, a title, and formats with a url.
Complete(o) ==
    /\ o.id.k = "text" /\ o.id.s # <<>>
    /\ o.title.k = "text"
    /\ \A j \in 1..Len(o.formats) :
          o.formats[j].k = "format" /\ o.formats[j].url.k = "text"
    /\ \A f \in DOMAIN o \ {"k", "formats", "subtitles"} : o[f].k # "raise"

\* C3: no partial record: a call has no outcome before it ends; it ends with
\* a complete record or without one; a call on a matching URL ends with a
\* record or a failure; and a failed fetch or a document lacking a required
\* key ends in a failure.
C3_NoPartialRecord ==
    \A c \in DOMAIN pc :
        /\ ~Done(c) => outcome[c] = NoOutcome
        /\ Done(c) =>
              /\ outcome[c].k \in {"record", "raise", "nomatch"}
              /\ Matched(c) => outcome[c].k \in {"record", "raise"}
              /\ Returned(c) => Complete(outcome[c])
              /\ (/\ Matched(c)
                  /\ \/ response[c] = FetchError
                     \/ ie[c] = "AdobeTVIE" /\ ~RequiredA(response[c])
                     \/ ie[c] = "AdobeTVVideoIE" /\ ~RequiredB(response[c]))
                 => Failed(c)

\* A document whose second video has no url was fetched, and the call failed.
C3_Witness ==
    \E c \in DOMAIN pc :
        /\ Done(c) /\ ie[c] = "AdobeTVIE" /\ IsDoc(response[c]) /\ Failed(c)
        /\ Has(response[c], "data") /\ response[c]["data"].l # <<>>
        /\ Has(RawEpisode(c), "id") /\ Has(RawEpisode(c), "title")
        /\ Has(RawEpisode(c), "videos")
        /\ Len(RawVideos(c)) = 2
        /\ Has(RawVideos(c)[1], "url") /\ ~Has(RawVideos(c)[2], "url")

\* C4: a call issues at most one fetch, after the URL has matched; nothing is
\* mapped before the fetch has returned; a record comes with exactly one
\* fetch; and a failed fetch ends the call.
C4_OneFetchInOrder ==
    \A c \in DOMAIN pc :
        /\ fetches[c] <= 1
        /\ fetches[c] >= 1 => Matched(c) /\ request[c] # None
        /\ pc[c] \in {"idle", "matched"} => fetches[c] = 0 /\ request[c] = None
        /\ pc[c] = "fetching" =>
              fetches[c] = 1 /\ response[c] = None /\ outcome[c] = NoOutcome
        /\ response[c] # None => fetches[c] = 1 /\ Done(c)
        /\ Returned(c) => fetches[c] = 1 /\ IsDoc(response[c])
        /\ response[c] = FetchError => Done(c) /\ Failed(c)

\* One call ended on a failed fetch and another returned a record.
C4_Witness ==
    \E c, d \in DOMAIN pc :
        /\ Done(c) /\ response[c] = FetchError /\ fetches[c] = 1
        /\ Returned(d) /\ fetches[d] = 1

\* C5: either extractor, called on a URL outside its pattern, declines with
\* NoMatch, fetches nothing and returns no record.
C5_NoMatchForBoth ==
    \A c \in DOMAIN pc :
        (/\ Done(c)
         /\ \/ ie[c] = "AdobeTVIE" /\ valid_url_A(url[c]) = None
            \/ ie[c] = "AdobeTVVideoIE" /\ valid_url_B(url[c]) = None)
        => outcome[c] = NoMatch /\ fetches[c] = 0 /\ response[c] = None

\* C6: AdobeTVIE: the language of a matched URL, and of the endpoint built
\* from it, is "en" when the path starts with 'watch' and is the first
\* segment, one of fr, de, es, jp, otherwise; a path with any other segment
\* before 'watch' does not match.
C6_LanguageDefault ==
    \A c \in DOMAIN pc :
        ie[c] = "AdobeTVIE" =>
            LET path == url[c].path
            IN /\ Matched(c) =>
                     /\ ref[c].language \in {fr, de, es, jp, en}
                     /\ path[1] = watch => ref[c].language = en
                     /\ path[1] # watch =>
                           path[1] \in {fr, de, es, jp} /\ ref[c].language = path[1]
                     /\ request[c] # None => request[c].language = ref[c].language
               /\ (Len(path) >= 2 /\ path[2] = watch /\ path[1] \notin {fr, de, es, jp})
                  => ~Matched(c) /\ fetches[c] = 0

\* The endpoint of a URL without a language segment was built with "en".
C6_Witness ==
    \E c \in DOMAIN pc :
        /\ ie[c] = "AdobeTVIE" /\ request[c] # None
        /\ url[c].path[1] = watch
        /\ request[c].language = en

LastIndexOf(s, ch) ==
    IF \E j \in 1..Len(s) : s[j] = ch
    THEN CHOOSE j \in 1..Len(s) : s[j] = ch /\ \A y \in (j + 1)..Len(s) : s[y] # ch
    ELSE 0

FirstIndexOf(s, ch) ==
    IF \E j \in 1..Len(s) : s[j] = ch
    THEN CHOOSE j \in 1..Len(s) : s[j] = ch /\ \A y \in 1..(j - 1) : s[y] # ch
    ELSE Len(s) + 1

\* What follows the last '-' of s, up to the first '.' of that.
TrailingToken(s) ==
    LET seg == SubSeq(s, LastIndexOf(s, "-") + 1, Len(s))
    IN SubSeq(seg, 1, FirstIndexOf(seg, ".") - 1)

ExpectedFormatId(video) ==
    IF NonEmptyText(Get(video, "quality_level")) THEN video["quality_level"]
    ELSE IF TrailingToken(video["url"].s) # <<>>
    THEN JText(TrailingToken(video["url"].s))
    ELSE None

\* C7: AdobeTVIE: each entry of 'videos' gives one format, whose format_id is
\* the entry's quality label when that is a non-empty text, otherwise the
\* part of its url after the last '-' and before the next '.', and None,
\* never the empty text, when that part is empty.
C7_FormatId ==
    \A c \in DOMAIN pc :
        (ie[c] = "AdobeTVIE" /\ Returned(c)) =>
            LET videos == RawVideos(c)
                formats == outcome[c].formats
            IN /\ Len(formats) = Len(videos)
               /\ \E p \in Bijections(Len(videos)) :
                     \A j \in 1..Len(videos) :
                        /\ formats[p[j]].url = videos[j]["url"]
                        /\ formats[p[j]].format_id = ExpectedFormatId(videos[j])
               /\ \A j \in 1..Len(formats) : formats[j].format_id # T_empty

\* A record was returned for a url without '-' and one whose trailing token
\* is empty, neither with a quality label.
C7_Witness ==
    \E c \in DOMAIN pc :
        /\ ie[c] = "AdobeTVIE" /\ Returned(c)
        /\ Len(RawVideos(c)) = 2
        /\ RawVideos(c)[1] = Video(URL_nodash, None, JInt(1280), JInt(720), JInt(1500))
        /\ RawVideos(c)[2] = Video(URL_dashdot, T_empty, JInt(1280), JInt(720), JInt(1500))
        /\ \E j \in 1..2 : outcome[c].formats[j].format_id = None

\* The language key of a translation: its W3C code when it has one, otherwise
\* the short code of its long language name.
ExpectedLang(t) ==
    IF NonEmptyText(Get(t, "language_w3c")) THEN t["language_w3c"]
    ELSE IF Get(t, "language_medium") = JText(French) THEN JText(fr)
    ELSE IF Get(t, "language_medium") = JText(German) THEN JText(de)
    ELSE None

\* The tracks of the translations of language x, in their order.
RECURSIVE ExpectedTracks(_, _)
ExpectedTracks(translations, x) ==
    IF translations = <<>> THEN <<>>
    ELSE (IF ExpectedLang(Head(translations)) = x
          THEN <<[url |-> Head(translations)["vttPath"], ext |-> <<"v", "t", "t">>]>>
          ELSE <<>>)
         \o ExpectedTracks(Tail(translations), x)

RECURSIVE SumOfLengths(_, _)
SumOfLengths(f, keys) ==
    IF keys = {} THEN 0
    ELSE LET x == CHOOSE y \in keys : TRUE
         IN Len(f[x]) + SumOfLengths(f, keys \ {x})

\* C8: AdobeTVVideoIE: the subtitles of a returned record hold one track per
\* translation, under the translation's W3C code or else the short code of
\* its language name, the tracks of one language in their order.
C8_SubtitleGrouping ==
    \A c \in DOMAIN pc :
        (ie[c] = "AdobeTVVideoIE" /\ Returned(c)) =>
            LET translations == RawTranslations(c)
                subtitles == outcome[c].subtitles
            IN /\ SumOfLengths(subtitles, DOMAIN subtitles) = Len(translations)
               /\ DOMAIN subtitles =
                     {ExpectedLang(translations[j]) : j \in 1..Len(translations)}
               /\ \A x \in DOMAIN subtitles :
                     subtitles[x] = ExpectedTracks(translations, x)

\* Two translations, the first with a W3C code and the second with only a
\* language name, ended under one key, in their order.
C8_Witness ==
    \E c \in DOMAIN pc :
        /\ ie[c] = "AdobeTVVideoIE" /\ Returned(c)
        /\ RawTranslations(c) = <<Translation(JText(fr), None, T_fvtt),
                                  Translation(None, JText(French), T_gvtt)>>
        /\ DOMAIN outcome[c].subtitles = {JText(fr)}
        /\ outcome[c].subtitles[JText(fr)] =
              <<[url |-> T_fvtt, ext |-> <<"v", "t", "t">>],
                [url |-> T_gvtt, ext |-> <<"v", "t", "t">>]>>

\* C9: whatever the raw width, height, bitrate or view count (missing, an
\* integer, numeric text, other text), a record with its required keys is
\* mapped, and the field is the integer the value stands for, or None.
C9_NumericCoercions ==
    \A c \in DOMAIN pc :
        /\ (Done(c) /\ ie[c] = "AdobeTVIE" /\ RequiredA(response[c])) =>
              /\ Returned(c)
              /\ outcome[c].view_count = ExpectedInt(Get(RawEpisode(c), "playcount"))
              /\ \E p \in Bijections(Len(RawVideos(c))) :
                    \A j \in 1..Len(RawVideos(c)) :
                       LET f == outcome[c].formats[p[j]]
                           v == RawVideos(c)[j]
                       IN /\ f.url = v["url"]
                          /\ f.width = ExpectedInt(Get(v, "width"))
                          /\ f.height = ExpectedInt(Get(v, "height"))
                          /\ f.tbr = ExpectedInt(Get(v, "video_data_rate"))
        /\ (/\ Done(c) /\ ie[c] = "AdobeTVVideoIE"
            /\ RequiredB(response[c]) /\ Has(response[c], "video")
            /\ WellFormedTranslations(c)
            /\ ReportedMs(c) \ {0} # {}) =>
              /\ Returned(c)
              /\ \E p \in Bijections(Len(RawSources(c))) :
                    \A j \in 1..Len(RawSources(c)) :
                       LET f == outcome[c].formats[p[j]]
                           v == RawSources(c)[j]
                       IN /\ f.url = v["src"]
                          /\ f.width = ExpectedInt(Get(v, "width"))
                          /\ f.height = ExpectedInt(Get(v, "height"))
                          /\ f.tbr = ExpectedInt(Get(v, "bitrate"))

\* A record was returned whose first video has the height "N/A" and whose
\* second has the width "480".
C9_Witness ==
    \E c \in DOMAIN pc :
        /\ ie[c] = "AdobeTVIE" /\ Returned(c)
        /\ Len(RawVideos(c)) = 2
        /\ Get(RawVideos(c)[1], "height") = T_NA
        /\ Get(RawVideos(c)[2], "width") = T_480
        /\ \E j \in 1..2 : outcome[c].formats[j].height = None
        /\ \E j \in 1..2 : outcome[c].formats[j].width = JInt(480)

\* The state of call c.
CallState(c) ==
    <<ie[c], url[c], pc[c], ref[c], request[c], fetches[c], response[c], outcome[c]>>

=============================================================================
